---- MODULE Spec2Model ----
(***************************************************************************)
(* Buffer pool of gavinenxu/db-intro: the LRU-K replacer                   *)
(* (src/unnamed/part_001, lru_k_replacer.cpp), the buffer pool manager     *)
(* (src/unnamed/part_000, buffer_pool_manager.cpp) and the page guards     *)
(* (src/src/storage/disk/disk_scheduler.cpp, second half).                 *)
(***************************************************************************)
EXTENDS Integers, Sequences, FiniteSets, TLC

(* ------------------------------------------------------------------ *)
(* Bounds of the model                                                  *)
(* ------------------------------------------------------------------ *)

\* pool_size_ of the buffer pool = replacer_size_ (num_frames) of its replacer
PoolSize == 2

\* k_ of the replacer
K == 2

\* cap on current_timestamp_ for a client of the replacer (every RecordAccess
\* increments it)
MaxTimestamp == 4

\* cap on current_timestamp_ for a client of the buffer pool (every NewPage and
\* every FetchPage that returns a page records one access)
MaxAccesses == 3

\* cap on next_page_id_ : NewPage hands out the ids 0 .. MaxPageId - 1
MaxPageId == 3

\* cap on a frame's pin_count_
MaxPin == 2

\* number of bytes of a page buffer in the model
PageBytes == 1

\* number of guard objects the client has room for
NumGuards == 2

\* how many times in a row the pair FetchPage(p); UnpinPage(p, false) is tried
MaxPairs == 2

\* number of client threads that call DiskScheduler::Schedule
NumThreads == 2

\* cap on the number of promises CreatePromise() hands out
MaxRequests == 3

\* a call of the pool is made while fewer than MaxPending write requests of
\* earlier calls wait in the scheduler's queue
MaxPending == 2

(* ------------------------------------------------------------------ *)
(* Program constants                                                    *)
(* ------------------------------------------------------------------ *)

\* common/config.h: INVALID_PAGE_ID and INVALID_FRAME_ID are both -1
INVALID_PAGE_ID == -1

INVALID_FRAME_ID == -1

\* std::numeric_limits<size_t>::max(): a value above every reachable
\* timestamp difference and every reachable size
SizeMax == 2147483647

Frames == 0 .. (PoolSize - 1)

\* frame ids a client may pass to the replacer: one below and two above the range
FrameArgs == INVALID_FRAME_ID .. (PoolSize + 1)

\* page ids a client may pass to the pool: INVALID and the ids NewPage can hand
\* out, allocated or not yet
PageIds == INVALID_PAGE_ID .. (MaxPageId - 1)

Byte == 0 .. 1

Buffers == [1 .. PageBytes -> Byte]

\* Page::ResetMemory: memset(data_, 0, PAGE_SIZE)
ZeroBuffer == [i \in 1 .. PageBytes |-> 0]

\* a guard's page_ is the frame it points to, or nullptr
NullPage == INVALID_FRAME_ID

\* a guard's bpm_ is the pool or nullptr
NullBpm == "nullptr"

ThisBpm == "bpm"

GuardIds == 1 .. NumGuards

\* the guard classes; a ReadPageGuard or WritePageGuard object is modelled by
\* its member guard_
GuardKinds == {"basic", "read", "write"}

VARIABLES
    node_store,         \* LRUKReplacer::node_store_ : fid -> LRUKNode
    current_timestamp,  \* LRUKReplacer::current_timestamp_
    curr_size,          \* LRUKReplacer::curr_size_
    pages,              \* BufferPoolManager::pages_ : frame -> Page
    page_table,         \* BufferPoolManager::page_table_ : page id -> frame
    free_list,          \* BufferPoolManager::free_list_
    next_page_id,       \* BufferPoolManager::next_page_id_
    disk,               \* the disk manager's image of every page
    write_queue,        \* the pool's write requests in its scheduler's queue, not yet served
    latches,            \* Page::rwlatch_ of every frame: readers and writer
    guards,             \* the client's guard objects
    pins,               \* the pins taken through guards and the UnpinPage calls of guards
    fetching,           \* per guard slot: the FetchPageRead / FetchPageWrite call that fills it
    request_queue,      \* DiskScheduler::request_queue_ : the requests put and not yet taken
    background_thread,  \* DiskScheduler::background_thread_ : where the worker is, and its request
    promises,           \* per promise of CreatePromise(): how often set_value was called
    io_log,             \* the calls made to the disk manager, in order, with their outcome
    enq_log,            \* the ids of the requests in the order they entered the queue
    sched,              \* the life of the DiskScheduler object
    threads,            \* per client thread: the request it built and has not scheduled yet
    next_req,           \* the number of promises created so far
    miss                \* where the thread inside a miss of NewPage / FetchPage is

vars == << node_store, current_timestamp, curr_size, pages, page_table,
           free_list, next_page_id, disk, write_queue, latches, guards, pins,
           fetching,
           request_queue, background_thread, promises, io_log, enq_log, sched,
           threads, next_req, miss >>

replacerVars == << node_store, current_timestamp, curr_size >>

poolVars == << pages, page_table, free_list, next_page_id, disk, write_queue >>

guardVars == << latches, guards, pins, fetching >>

schedVars == << request_queue, background_thread, promises, io_log, enq_log,
               sched, threads, next_req >>

ioVars == << schedVars, miss >>

(* ------------------------------------------------------------------ *)
(* Helpers                                                              *)
(* ------------------------------------------------------------------ *)

\* a function with key k set to v (std::unordered_map operator[] / insert)
MapPut(m, k, v) == [x \in (DOMAIN m) \cup {k} |-> IF x = k THEN v ELSE m[x]]

\* a function without key k (std::unordered_map::erase(key))
MapErase(m, k) == [x \in (DOMAIN m) \ {k} |-> m[x]]

EmptyMap == [x \in {} |-> 0]

\* every iteration order of a std::unordered_map with key set S
RECURSIVE Orders(_)
Orders(S) ==
    IF S = {} THEN { << >> }
    ELSE UNION { { << x >> \o o : o \in Orders(S \ {x}) } : x \in S }

\* ++ on a size_t
SizeInc(s) == IF s = SizeMax THEN 0 ELSE s + 1

\* -- on a size_t: 0 wraps to the maximum
SizeDec(s) == IF s = 0 THEN SizeMax ELSE s - 1

(* ------------------------------------------------------------------ *)
(* LRUKReplacer (src/unnamed/part_001)                                  *)
(* A replacer value is [ns, ts, sz] = node_store_, current_timestamp_,  *)
(* curr_size_; every operation returns the new value and what it        *)
(* reported.                                                            *)
(* ------------------------------------------------------------------ *)

Replacer == [ns |-> node_store, ts |-> current_timestamp, sz |-> curr_size]

\* the range check of RecordAccess, SetEvictable and Remove (it throws)
OutOfRange(frame_id) == frame_id < 0 \/ frame_id > PoolSize

\* a default-constructed LRUKNode (what node_store_[frame_id] inserts)
NewNode == [fid_ |-> 0, history_ |-> << >>, is_evictable_ |-> FALSE]

\* while (history_.size() > k_) history_.pop_front()
RECURSIVE TrimHistory(_)
TrimHistory(h) == IF Len(h) > K THEN TrimHistory(Tail(h)) ELSE h

\* size_t distance = history_.size() < k_ ? inf : current_timestamp_ - history_.front()
Distance(node, ts) ==
    IF Len(node.history_) < K THEN SizeMax ELSE ts - Head(node.history_)

\* EvictPrefers without the tie-break on the earlier front timestamp
EvictPrefersNoTieBreak(r, node, victim_id, max_distance) ==
    \/ victim_id = INVALID_FRAME_ID
    \/ max_distance < Distance(node, r.ts)

\* the condition under which the scan of Evict replaces its candidate
EvictPrefers(r, node, victim_id, max_distance) ==
    \/ victim_id = INVALID_FRAME_ID
    \/ max_distance < Distance(node, r.ts)
    \/ /\ max_distance = Distance(node, r.ts)
       /\ Head(node.history_) < Head(r.ns[victim_id].history_)

\* the loop of Evict over node_store_ in iteration order `order`, from position i
RECURSIVE EvictScan(_, _, _, _, _)
EvictScan(r, order, i, victim_id, max_distance) ==
    IF i > Len(order) THEN victim_id
    ELSE LET node == r.ns[order[i]] IN
         IF ~ node.is_evictable_
         THEN EvictScan(r, order, i + 1, victim_id, max_distance)
         ELSE IF EvictPrefers(r, node, victim_id, max_distance)
              THEN EvictScan(r, order, i + 1, node.fid_, Distance(node, r.ts))
              ELSE EvictScan(r, order, i + 1, victim_id, max_distance)

\* the frame the scan of Evict ends with
EvictVictim(r, order) == EvictScan(r, order, 1, INVALID_FRAME_ID, 0)

\* LRUKReplacer::Evict
Evict(r, order) ==
    LET victim_id == EvictVictim(r, order) IN
    IF victim_id # INVALID_FRAME_ID
    THEN [rep |-> [r EXCEPT !.ns = MapErase(r.ns, victim_id), !.sz = SizeDec(r.sz)],
          ok |-> TRUE, frame |-> victim_id, thrown |-> FALSE]
    ELSE [rep |-> r, ok |-> FALSE, frame |-> INVALID_FRAME_ID, thrown |-> FALSE]

\* LRUKReplacer::RecordAccess
RecordAccess(r, frame_id) ==
    IF OutOfRange(frame_id)
    THEN [rep |-> r, thrown |-> TRUE]
    ELSE LET ts   == SizeInc(r.ts)
             old  == IF frame_id \in DOMAIN r.ns THEN r.ns[frame_id] ELSE NewNode
             node == [old EXCEPT !.fid_ = frame_id,
                                 !.history_ = TrimHistory(Append(old.history_, ts))]
         IN [rep |-> [r EXCEPT !.ts = ts, !.ns = MapPut(r.ns, frame_id, node)],
             thrown |-> FALSE]

\* SizeAfterFlip that only ever counts up
SizeAfterFlipNoDecrement(sz, set_evictable) ==
    IF set_evictable THEN SizeInc(sz) ELSE sz

\* the curr_size_ adjustment of SetEvictable when the flag changes
SizeAfterFlip(sz, set_evictable) ==
    IF set_evictable THEN SizeInc(sz) ELSE SizeDec(sz)

\* LRUKReplacer::SetEvictable
SetEvictable(r, frame_id, set_evictable) ==
    IF OutOfRange(frame_id)
    THEN [rep |-> r, thrown |-> TRUE]
    ELSE IF frame_id \notin DOMAIN r.ns
    THEN [rep |-> r, thrown |-> FALSE]
    ELSE IF r.ns[frame_id].is_evictable_ # set_evictable
    THEN [rep |-> [r EXCEPT !.ns[frame_id].is_evictable_ = set_evictable,
                            !.sz = SizeAfterFlip(r.sz, set_evictable)],
          thrown |-> FALSE]
    ELSE [rep |-> r, thrown |-> FALSE]

\* LRUKReplacer::Remove
Remove(r, frame_id) ==
    IF OutOfRange(frame_id)
    THEN [rep |-> r, thrown |-> TRUE]
    ELSE IF frame_id \notin DOMAIN r.ns
    THEN [rep |-> r, thrown |-> FALSE]
    ELSE IF ~ r.ns[frame_id].is_evictable_
    THEN [rep |-> r, thrown |-> TRUE]
    ELSE [rep |-> [r EXCEPT !.ns = MapErase(r.ns, frame_id), !.sz = SizeDec(r.sz)],
          thrown |-> FALSE]

\* LRUKReplacer::Size
Size(r) == r.sz

\* the replacer variables take the value r
SetReplacer(r) ==
    /\ node_store' = r.ns
    /\ current_timestamp' = r.ts
    /\ curr_size' = r.sz

(* ------------------------------------------------------------------ *)
(* BufferPoolManager (src/unnamed/part_000)                             *)
(* A pool value is [pages, page_table, free_list, next_page_id, disk,   *)
(* rep]; every operation returns the new value and what it returned.    *)
(* Frame ids passed to the replacer are always in 0 .. PoolSize - 1, so *)
(* its range check never throws here.                                   *)
(* ------------------------------------------------------------------ *)

\* a default-constructed Page
NewPageObject ==
    [page_id |-> INVALID_PAGE_ID, pin_count |-> 0, is_dirty |-> FALSE,
     data |-> ZeroBuffer]

Pool == [pages |-> pages, page_table |-> page_table, free_list |-> free_list,
         next_page_id |-> next_page_id, disk |-> disk, queue |-> write_queue,
         rep |-> Replacer]

\* Channel::Put: the element goes to the back of the queue
ChannelPut(q, r) == Append(q, r)

\* Channel::Get on a queue that is not empty: the front element is taken
ChannelGet(q) == [item |-> Head(q), queue |-> Tail(q)]

\* Schedule that puts the request at the front of the queue
SchedulePutsFirst(q, r) == << r >> \o q

\* DiskScheduler::Schedule
Schedule(q, r) == ChannelPut(q, r)

\* BufferPoolManager::DiskSchedule: the request is handed to the scheduler; a
\* write is not waited for, the read of FetchPage is
DiskSchedule(q, r) == Schedule(q, r)

\* a write request of the pool: data_ points to the buffer of frame frame_id
\* (the future of its promise is dropped)
WriteRequest(frame_id, page_id) == [data_ |-> frame_id, page_id_ |-> page_id]

\* the disk worker serves the front request of the pool's queue: WritePage
\* copies what the buffer holds when the worker gets to it
WorkerServe(b) ==
    LET r == Head(b.queue) IN
    [b EXCEPT !.disk[r.page_id_] = b.pages[r.data_].data, !.queue = Tail(b.queue)]

\* the worker serves the first `served` requests of the queue, front to back
RECURSIVE ServeN(_, _)
ServeN(b, served) ==
    IF served = 0 \/ b.queue = << >> THEN b ELSE ServeN(WorkerServe(b), served - 1)

\* the worker serves every request in the queue
Drain(b) == ServeN(b, Len(b.queue))

\* how the worker's copy of a victim's buffer falls against ResetMemory, which the
\* miss path runs without waiting for the write: not before the reset (early
\* FALSE), or before or during it, with the bytes in `copied` read before they
\* were zeroed
Races ==
    { [early |-> FALSE, copied |-> [i \in 1 .. PageBytes |-> FALSE]] } \cup
    { [early |-> TRUE, copied |-> m] : m \in [1 .. PageBytes -> BOOLEAN] }

\* the worker does not get to the write before the buffer is reset
Late == [early |-> FALSE, copied |-> [i \in 1 .. PageBytes |-> FALSE]]

\* what WritePage copies from buffer buf while ResetMemory zeroes it
RacedCopy(buf, copied) == [i \in 1 .. PageBytes |-> IF copied[i] THEN buf[i] ELSE 0]

\* strlen(page->GetData()) from byte i on: the bytes before the first 0 byte
RECURSIVE StrLenFrom(_, _)
StrLenFrom(buf, i) ==
    IF i > PageBytes \/ buf[i] = 0 THEN 0 ELSE 1 + StrLenFrom(buf, i + 1)

StrLen(buf) == StrLenFrom(buf, 1)

\* BufferPoolManager::DiskSchedule with a write request for frame `frame` under
\* id `page_id`: the request is put in the queue and the call returns
DiskWrite(b, frame, page_id) ==
    [b EXCEPT !.queue = DiskSchedule(b.queue, WriteRequest(frame, page_id))]

\* BufferPoolManager::DiskSchedule with a read request into frame `frame`, which
\* is waited for: the worker has served every request put before it
DiskRead(b, frame, page_id) ==
    LET d == Drain(b) IN
    [d EXCEPT !.pages[frame].data = d.disk[page_id]]

\* BufferPoolManager::DeallocatePage
DeallocatePage(b, page_id) == b

\* RequestFrameId that never asks the replacer
RequestFrameIdFreeListOnly(b, order) ==
    IF b.free_list # << >>
    THEN [pool |-> [b EXCEPT !.free_list = Tail(b.free_list)],
          frame |-> Head(b.free_list)]
    ELSE [pool |-> b, frame |-> INVALID_FRAME_ID]

\* BufferPoolManager::RequestFrameId
RequestFrameId(b, order) ==
    IF b.free_list # << >>
    THEN [pool |-> [b EXCEPT !.free_list = Tail(b.free_list)],
          frame |-> Head(b.free_list)]
    ELSE IF Size(b.rep) > 0
    THEN LET e == Evict(b.rep, order) IN
         [pool |-> [b EXCEPT !.rep = e.rep], frame |-> e.frame]
    ELSE [pool |-> b, frame |-> INVALID_FRAME_ID]

\* BufferPoolManager::InitPageOnBufferPool
InitPageOnBufferPool(b, frame_id, page_id) ==
    LET r1 == SetEvictable(b.rep, frame_id, FALSE).rep
        r2 == RecordAccess(r1, frame_id).rep
    IN [b EXCEPT !.pages[frame_id].page_id = page_id,
                 !.pages[frame_id].is_dirty = FALSE,
                 !.pages[frame_id].pin_count = 1,
                 !.rep = r2,
                 !.page_table = MapPut(b.page_table, page_id, frame_id)]

\* the miss path's test for writing the frame's previous page back
NeedsWriteBack(page) == page.is_dirty /\ StrLen(page.data) > 0

\* page_table_.erase(page->GetPageId()); page->ResetMemory()
ResetFrame(b, frame_id) ==
    [b EXCEPT !.page_table = MapErase(b.page_table, b.pages[frame_id].page_id),
              !.pages[frame_id].data = ZeroBuffer]

\* the write-back of the miss path when the worker gets to it before the call
\* has reset the buffer: the requests before it are served, then it is
WriteBackEarly(b, frame_id, copied) ==
    LET page == b.pages[frame_id]
        d == Drain(b)
    IN [d EXCEPT !.disk[page.page_id] = RacedCopy(page.data, copied)]

\* the miss path of NewPage and FetchPage up to ResetMemory: schedule the write
\* of the previous page if needed, erase its page-table entry, zero the buffer
ClearFrame(b, frame_id, race) ==
    LET page == b.pages[frame_id]
        b1 == IF ~ NeedsWriteBack(page) THEN b
              ELSE IF race.early THEN WriteBackEarly(b, frame_id, race.copied)
              ELSE DiskWrite(b, frame_id, page.page_id)
    IN ResetFrame(b1, frame_id)

\* the races a miss in pool b can see when Evict walks node_store_ in `order`
WriteRaces(b, order) ==
    LET q == RequestFrameId(b, order) IN
    IF q.frame # INVALID_FRAME_ID /\ NeedsWriteBack(b.pages[q.frame])
    THEN Races ELSE { Late }

\* AllocatePage that leaves the counter where it is
AllocatePageKeepsId(b) == b

\* BufferPoolManager::AllocatePage
AllocatePage(b) == [b EXCEPT !.next_page_id = b.next_page_id + 1]

\* BufferPoolManager::NewPage
NewPage(b, order, race) ==
    LET q == RequestFrameId(b, order) IN
    IF q.frame = INVALID_FRAME_ID
    THEN [pool |-> b, frame |-> INVALID_FRAME_ID, page_id |-> INVALID_PAGE_ID,
          reused_pin |-> 0]
    ELSE LET b1 == ClearFrame(q.pool, q.frame, race)
             b2 == InitPageOnBufferPool(b1, q.frame, b.next_page_id)
         IN [pool |-> AllocatePage(b2), frame |-> q.frame,
             page_id |-> b.next_page_id,
             reused_pin |-> b.pages[q.frame].pin_count]

\* FetchHit that pins without telling the replacer
FetchHitStaysEvictable(b, page_id) ==
    LET frame_id == b.page_table[page_id]
        r2 == RecordAccess(b.rep, frame_id).rep
    IN [b EXCEPT !.pages[frame_id].pin_count = @ + 1, !.rep = r2]

\* the hit path of FetchPage
FetchHit(b, page_id) ==
    LET frame_id == b.page_table[page_id]
        r1 == SetEvictable(b.rep, frame_id, FALSE).rep
        r2 == RecordAccess(r1, frame_id).rep
    IN [b EXCEPT !.pages[frame_id].pin_count = @ + 1, !.rep = r2]

\* BufferPoolManager::FetchPage
FetchPage(b, page_id, order, race) ==
    IF page_id \in DOMAIN b.page_table
    THEN [pool |-> FetchHit(b, page_id), frame |-> b.page_table[page_id],
          hit |-> TRUE, reused_pin |-> 0]
    ELSE LET q == RequestFrameId(b, order) IN
         IF q.frame = INVALID_FRAME_ID
         THEN [pool |-> b, frame |-> INVALID_FRAME_ID, hit |-> FALSE, reused_pin |-> 0]
         ELSE LET b1 == ClearFrame(q.pool, q.frame, race)
                  b2 == InitPageOnBufferPool(b1, q.frame, page_id)
              IN [pool |-> DiskRead(b2, q.frame, page_id), frame |-> q.frame,
                  hit |-> FALSE, reused_pin |-> b.pages[q.frame].pin_count]

\* page->is_dirty_ after UnpinPage(page_id, is_dirty)
DirtyAfterUnpin(was_dirty, is_dirty) == is_dirty

\* UnpinPage without the test for a pin count that is already 0
UnpinPageBelowZero(b, page_id, is_dirty) ==
    IF page_id \notin DOMAIN b.page_table
    THEN [pool |-> b, ok |-> FALSE]
    ELSE LET frame_id == b.page_table[page_id]
             page == b.pages[frame_id]
             r1 == IF page.pin_count - 1 = 0
                   THEN SetEvictable(b.rep, frame_id, TRUE).rep
                   ELSE b.rep
         IN [pool |-> [b EXCEPT !.pages[frame_id].pin_count = @ - 1,
                                !.pages[frame_id].is_dirty =
                                    DirtyAfterUnpin(@, is_dirty),
                                !.rep = r1],
             ok |-> TRUE]

\* BufferPoolManager::UnpinPage
UnpinPage(b, page_id, is_dirty) ==
    IF page_id \notin DOMAIN b.page_table
    THEN [pool |-> b, ok |-> FALSE]
    ELSE LET frame_id == b.page_table[page_id]
             page == b.pages[frame_id]
         IN IF page.pin_count <= 0
            THEN [pool |-> b, ok |-> FALSE]
            ELSE LET r1 == IF page.pin_count - 1 = 0
                           THEN SetEvictable(b.rep, frame_id, TRUE).rep
                           ELSE b.rep
                 IN [pool |-> [b EXCEPT !.pages[frame_id].pin_count = @ - 1,
                                        !.pages[frame_id].is_dirty =
                                            DirtyAfterUnpin(@, is_dirty),
                                        !.rep = r1],
                     ok |-> TRUE]

\* the body FlushPage and FlushAllPages run for one frame
FlushFrame(b, frame_id) ==
    [DiskWrite(b, frame_id, b.pages[frame_id].page_id)
        EXCEPT !.pages[frame_id].is_dirty = FALSE]

\* BufferPoolManager::FlushPage; the worker has served `served` requests of the
\* queue when the call returns
FlushPage(b, page_id, served) ==
    IF page_id \notin DOMAIN b.page_table
    THEN [pool |-> b, ok |-> FALSE]
    ELSE [pool |-> ServeN(FlushFrame(b, b.page_table[page_id]), served), ok |-> TRUE]

\* the loop of FlushAllPages over page_table_ in iteration order `order`
RECURSIVE FlushFrom(_, _, _)
FlushFrom(b, order, i) ==
    IF i > Len(order) THEN b
    ELSE FlushFrom(FlushFrame(b, b.page_table[order[i]]), order, i + 1)

\* BufferPoolManager::FlushAllPages; the worker has served `served` requests of
\* the queue when the call returns
FlushAllPages(b, order, served) == ServeN(FlushFrom(b, order, 1), served)

\* how far the worker can be when a call that puts n write requests returns
Progress(b, n) == 0 .. (Len(b.queue) + n)

\* DeletePage that puts the frame at the front of the free list
DeletePageFreesToFront(b, page_id) ==
    IF page_id \notin DOMAIN b.page_table
    THEN [pool |-> b, ok |-> TRUE, thrown |-> FALSE]
    ELSE LET frame_id == b.page_table[page_id]
             rm == Remove(b.rep, frame_id)
             b1 == [b EXCEPT !.page_table = MapErase(b.page_table, page_id)]
         IN IF b.pages[frame_id].pin_count > 0
            THEN [pool |-> b, ok |-> FALSE, thrown |-> FALSE]
            ELSE IF rm.thrown
            THEN [pool |-> b1, ok |-> FALSE, thrown |-> TRUE]
            ELSE [pool |-> DeallocatePage(
                             [b1 EXCEPT !.rep = rm.rep,
                                        !.free_list = << frame_id >> \o b1.free_list,
                                        !.pages[frame_id] = NewPageObject],
                             page_id),
                  ok |-> TRUE, thrown |-> FALSE]

\* BufferPoolManager::DeletePage
DeletePage(b, page_id) ==
    IF page_id \notin DOMAIN b.page_table
    THEN [pool |-> b, ok |-> TRUE, thrown |-> FALSE]
    ELSE LET frame_id == b.page_table[page_id]
             rm == Remove(b.rep, frame_id)
             b1 == [b EXCEPT !.page_table = MapErase(b.page_table, page_id)]
         IN IF b.pages[frame_id].pin_count > 0
            THEN [pool |-> b, ok |-> FALSE, thrown |-> FALSE]
            ELSE IF rm.thrown
            THEN [pool |-> b1, ok |-> FALSE, thrown |-> TRUE]
            ELSE [pool |-> DeallocatePage(
                             [b1 EXCEPT !.rep = rm.rep,
                                        !.free_list = Append(b1.free_list, frame_id),
                                        !.pages[frame_id] = NewPageObject],
                             page_id),
                  ok |-> TRUE, thrown |-> FALSE]

\* no FetchPageRead / FetchPageWrite call in progress for a slot
NoFetch == [pc |-> "None", kind |-> "basic", page_ |-> NullPage]

\* the process was killed by a signal
Killed == \E g \in GuardIds : fetching[g].pc = "Segv"

\* the pool and replacer variables take the value b: a call made by the running
\* process while fewer than MaxPending write requests wait in the queue
SetPool(b) ==
    /\ ~ Killed
    /\ Len(write_queue) < MaxPending
    /\ pages' = b.pages
    /\ page_table' = b.page_table
    /\ free_list' = b.free_list
    /\ next_page_id' = b.next_page_id
    /\ disk' = b.disk
    /\ write_queue' = b.queue
    /\ SetReplacer(b.rep)

\* a slot that holds no guard object
NoGuard == [live |-> FALSE, kind |-> "basic", bpm_ |-> NullBpm, page_ |-> NullPage,
            is_dirty_ |-> FALSE]

\* no pin taken, no UnpinPage called, no guard owns a pin
NoPins == [taken |-> [k \in {"basic", "latched"} |-> [f \in Frames |-> 0]],
           calls |-> [k \in {"basic", "latched"} |-> [f \in Frames |-> 0]],
           own   |-> [g \in GuardIds |-> NullPage]]

(* ------------------------------------------------------------------ *)
(* Page guards (src/src/storage/disk/disk_scheduler.cpp, lines 63-163)  *)
(* A world value is [pool, guards, latches, calls]: the pool, the guard *)
(* objects, the frame latches and the count of UnpinPage calls guards   *)
(* have made per frame.                                                 *)
(* ------------------------------------------------------------------ *)

World == [pool |-> Pool, guards |-> guards, latches |-> latches,
          calls |-> pins.calls]

\* BasicPageGuard(bpm, page): stores both, is_dirty_ starts false
BasicPageGuardNew(bpm, page) ==
    [live |-> TRUE, kind |-> "basic", bpm_ |-> bpm, page_ |-> page,
     is_dirty_ |-> FALSE]

\* a default-constructed BasicPageGuard member guard_ of a guard of class `kind`
DefaultGuard(kind) ==
    [live |-> TRUE, kind |-> kind, bpm_ |-> NullBpm, page_ |-> NullPage,
     is_dirty_ |-> FALSE]

\* ReadPageGuard::ReadPageGuard(bpm, page): the body is empty, guard_ is
\* default-constructed
ReadPageGuardNew(bpm, page) == DefaultGuard("read")

\* WritePageGuard::WritePageGuard(bpm, page): the body is empty, guard_ is
\* default-constructed
WritePageGuardNew(bpm, page) == DefaultGuard("write")

\* under which counter an UnpinPage call of a guard of class `kind` is recorded
CallKind(kind) == IF kind = "basic" THEN "basic" ELSE "latched"

\* bpm_->UnpinPage(page_->GetPageId(), is_dirty_) of guard g
UnpinByGuard(w, g) ==
    LET gd == w.guards[g]
        f  == gd.page_
    IN [w EXCEPT !.pool = UnpinPage(w.pool, w.pool.pages[f].page_id, gd.is_dirty_).pool,
                 !.calls[CallKind(gd.kind)][f] = @ + 1]

\* the members of a guard after it gave its page away
Emptied(gd) == [gd EXCEPT !.bpm_ = NullBpm, !.page_ = NullPage, !.is_dirty_ = FALSE]

\* BasicPageGuard::Drop that unpins and keeps page_
BasicDropKeepsPage(w, g) ==
    IF w.guards[g].page_ # NullPage THEN UnpinByGuard(w, g) ELSE w

\* BasicPageGuard::Drop
BasicDrop(w, g) ==
    IF w.guards[g].page_ # NullPage
    THEN [UnpinByGuard(w, g) EXCEPT !.guards[g] = Emptied(@)]
    ELSE w

\* BasicPageGuard(BasicPageGuard &&that): dst is constructed from src; also the
\* move constructors of ReadPageGuard and WritePageGuard, which move guard_
MoveConstruct(w, dst, src) ==
    [w EXCEPT !.guards[dst] = w.guards[src],
              !.guards[src] = Emptied(@)]

\* BasicPageGuard::operator=(BasicPageGuard &&that): dst = std::move(src); also
\* the move assignments of ReadPageGuard and WritePageGuard, which assign guard_
MoveAssign(w, dst, src) ==
    IF dst # src
    THEN LET w1 == BasicDrop(w, dst) IN
         [w1 EXCEPT !.guards[dst] = w1.guards[src],
                    !.guards[src] = Emptied(@)]
    ELSE w

\* Page::RUnlatch / Page::WUnlatch of frame f for a guard of class `kind`
Unlatch(l, f, kind) ==
    IF kind = "read" THEN [l EXCEPT ![f].readers = @ - 1]
    ELSE [l EXCEPT ![f].writer = FALSE]

\* ReadPageGuard::Drop and WritePageGuard::Drop
LatchedDrop(w, g) ==
    LET gd == w.guards[g] IN
    IF gd.page_ # NullPage
    THEN LET w1 == UnpinByGuard(w, g) IN
         [w1 EXCEPT !.latches = Unlatch(w1.latches, gd.page_, gd.kind),
                    !.guards[g].page_ = NullPage,
                    !.guards[g].bpm_ = NullBpm]
    ELSE w

\* Drop() of guard g
Drop(w, g) ==
    IF w.guards[g].kind = "basic" THEN BasicDrop(w, g) ELSE LatchedDrop(w, g)

\* the destructor of guard g: ~BasicPageGuard runs Drop; ~ReadPageGuard and
\* ~WritePageGuard run their Drop and then the destructor of guard_
Destroy(w, g) ==
    LET w1 == IF w.guards[g].kind = "basic" THEN w ELSE LatchedDrop(w, g)
        w2 == BasicDrop(w1, g)
    IN [w2 EXCEPT !.guards[g] = NoGuard]

\* BufferPoolManager::FetchPageBasic into slot g
FetchPageBasic(w, g, page_id, order, race) ==
    LET c == FetchPage(w.pool, page_id, order, race) IN
    [world |-> [w EXCEPT !.pool = c.pool,
                         !.guards[g] = BasicPageGuardNew(ThisBpm, c.frame)],
     frame |-> c.frame]

\* BufferPoolManager::NewPageGuarded into slot g
NewPageGuarded(w, g, order, race) ==
    LET c == NewPage(w.pool, order, race) IN
    [world |-> [w EXCEPT !.pool = c.pool,
                         !.guards[g] = BasicPageGuardNew(ThisBpm, c.frame)],
     frame |-> c.frame]

\* Page::RLatch of frame f returns
RLatch(l, f) == [l EXCEPT ![f].readers = @ + 1]

\* Page::WLatch of frame f returns
WLatch(l, f) == [l EXCEPT ![f].writer = TRUE]

\* Page::RLatch of frame f does not have to wait
CanRLatch(l, f) == ~ l[f].writer

\* Page::WLatch of frame f does not have to wait
CanWLatch(l, f) == ~ l[f].writer /\ l[f].readers = 0

\* what a call of a member function through a null Page pointer does: the
\* behaviour is undefined; the process is killed by SIGSEGV, or the call has
\* no effect and returns
NullDeref == {"segv", "return"}

\* BufferPoolManager::FetchPageRead after FetchPage returned `page`:
\* page->RLatch() returns and the guard is constructed into slot g
FetchPageReadLatch(w, g, page, ub) ==
    IF page = NullPage
    THEN IF ub = "segv" THEN [world |-> w, segv |-> TRUE]
         ELSE [world |-> [w EXCEPT !.guards[g] = ReadPageGuardNew(ThisBpm, page)],
               segv |-> FALSE]
    ELSE [world |-> [w EXCEPT !.latches = RLatch(@, page),
                              !.guards[g] = ReadPageGuardNew(ThisBpm, page)],
          segv |-> FALSE]

\* BufferPoolManager::FetchPageWrite after FetchPage returned `page`:
\* page->WLatch() returns and the guard is constructed into slot g
FetchPageWriteLatch(w, g, page, ub) ==
    IF page = NullPage
    THEN IF ub = "segv" THEN [world |-> w, segv |-> TRUE]
         ELSE [world |-> [w EXCEPT !.guards[g] = WritePageGuardNew(ThisBpm, page)],
               segv |-> FALSE]
    ELSE [world |-> [w EXCEPT !.latches = WLatch(@, page),
                              !.guards[g] = WritePageGuardNew(ThisBpm, page)],
          segv |-> FALSE]

\* BasicPageGuard::UpgradeRead of guard g, the returned guard goes into slot dst:
\* return {bpm_, page_} constructs a ReadPageGuard from the two pointers; no
\* latch is taken and the members of g are left as they are
UpgradeRead(w, g, dst) ==
    [w EXCEPT !.guards[dst] = ReadPageGuardNew(w.guards[g].bpm_, w.guards[g].page_)]

\* BasicPageGuard::UpgradeWrite of guard g, the returned guard goes into slot dst
UpgradeWrite(w, g, dst) ==
    [w EXCEPT !.guards[dst] = WritePageGuardNew(w.guards[g].bpm_, w.guards[g].page_)]

\* the pool, latch and guard variables take the value w; the pins record takes
\* the UnpinPage calls of w and the given taken and own; the calls in progress
\* become `calls`
SetGuards(w, taken, own, calls) ==
    /\ SetPool(w.pool)
    /\ latches' = w.latches
    /\ guards' = w.guards
    /\ pins' = [taken |-> taken, calls |-> w.calls, own |-> own]
    /\ fetching' = calls
    /\ UNCHANGED ioVars

\* the same for a call that is not FetchPageRead or FetchPageWrite
SetWorld(w, taken, own) == SetGuards(w, taken, own, fetching)

\* slot g holds no guard object and no call is filling it
Vacant(g) == ~ guards[g].live /\ fetching[g].pc = "None"

\* pins.taken after a fetch through a guard of class `kind` returned `frame`
Taken(kind, frame) ==
    IF frame = INVALID_FRAME_ID THEN pins.taken
    ELSE [pins.taken EXCEPT ![CallKind(kind)][frame] = @ + 1]

(* ------------------------------------------------------------------ *)
(* DiskScheduler (src/src/storage/disk/disk_scheduler.cpp, lines 19-59) *)
(* A request is [id, is_write_, page_id_, data_]: id names its promise  *)
(* (callback_), data_ is the frame whose buffer it points to or         *)
(* NullPage for a buffer of the caller. The worker is at "Get" (in      *)
(* request_queue_.Get()), at "IO" (about to call the disk manager), at  *)
(* "SetValue" (the disk call has returned) or "Exited".                 *)
(* ------------------------------------------------------------------ *)

Threads == 1 .. NumThreads

RequestIds == 1 .. MaxRequests

\* DiskRequest{is_write_, data_, page_id_, callback_}
DiskRequest(id, is_write, data, page_id) ==
    [id |-> id, is_write_ |-> is_write, page_id_ |-> page_id, data_ |-> data]

\* std::nullopt in the queue
NullOpt == DiskRequest(0, FALSE, NullPage, INVALID_PAGE_ID)

\* disk_request.has_value()
HasValue(r) == r.id # 0

\* a destructor that joins without putting the sentinel
DestructorPutsNothing(q, life) ==
    [queue |-> q, life |-> "Joining"]

\* DiskScheduler::~DiskScheduler up to the join: request_queue_.Put(std::nullopt)
DestructorPut(q, life) ==
    [queue |-> ChannelPut(q, NullOpt), life |-> "Joining"]

\* the worker's step after Get: break on nullopt, otherwise go on to the disk call
WorkerAfterGet(item) == IF ~ HasValue(item) THEN "Exited" ELSE "IO"

\* DiskManager::WritePage / ReadPage for request r with outcome ok: a write
\* copies the buffer to the disk image, a read the disk image to the buffer; a
\* failed call returns without copying
DiskManagerIO(pg, dk, r, ok) ==
    IF ~ ok \/ r.data_ = NullPage THEN [pages |-> pg, disk |-> dk]
    ELSE IF r.is_write_
    THEN [pages |-> pg, disk |-> [dk EXCEPT ![r.page_id_] = pg[r.data_].data]]
    ELSE [pages |-> [pg EXCEPT ![r.data_].data = dk[r.page_id_]], disk |-> dk]

\* disk_request->callback_.set_value(true)
SetValue(p, id) == [p EXCEPT ![id] = @ + 1]

\* the worker waiting in Get with no request
WorkerWaiting == [pc |-> "Get", req |-> NullOpt]

\* no thread is inside a miss of NewPage or FetchPage
NoMiss == [pc |-> "Idle", frame |-> INVALID_FRAME_ID, page_id |-> INVALID_PAGE_ID,
           fetch |-> FALSE, read_req |-> 0]

(* ------------------------------------------------------------------ *)
(* Initial state                                                        *)
(* ------------------------------------------------------------------ *)

Init ==
    /\ node_store = EmptyMap
    /\ current_timestamp = 0
    /\ curr_size = 0
    /\ pages = [f \in Frames |-> NewPageObject]
    /\ page_table = EmptyMap
    /\ free_list = [i \in 1 .. PoolSize |-> i - 1]
    /\ next_page_id = 0
    /\ disk = [p \in PageIds |-> ZeroBuffer]
    /\ write_queue = << >>
    /\ latches = [f \in Frames |-> [readers |-> 0, writer |-> FALSE]]
    /\ guards = [g \in GuardIds |-> NoGuard]
    /\ pins = NoPins
    /\ fetching = [g \in GuardIds |-> NoFetch]
    /\ request_queue = << >>
    /\ background_thread = WorkerWaiting
    /\ promises = [id \in RequestIds |-> 0]
    /\ io_log = << >>
    /\ enq_log = << >>
    /\ sched = "Alive"
    /\ threads = [t \in Threads |-> NullOpt]
    /\ next_req = 0
    /\ miss = NoMiss

(* ------------------------------------------------------------------ *)
(* The replacer on its own: a client calls its four operations with     *)
(* any frame id.                                                        *)
(* ------------------------------------------------------------------ *)

ReplacerRecordAccess ==
    \E fid \in FrameArgs :
        LET c == RecordAccess(Replacer, fid) IN
        /\ current_timestamp < MaxTimestamp
        /\ SetReplacer(c.rep)
        /\ UNCHANGED << poolVars, guardVars, ioVars >>

ReplacerSetEvictable ==
    \E fid \in FrameArgs, flag \in BOOLEAN :
        LET c == SetEvictable(Replacer, fid, flag) IN
        /\ SetReplacer(c.rep)
        /\ UNCHANGED << poolVars, guardVars, ioVars >>

ReplacerRemove ==
    \E fid \in FrameArgs :
        LET c == Remove(Replacer, fid) IN
        /\ SetReplacer(c.rep)
        /\ UNCHANGED << poolVars, guardVars, ioVars >>

ReplacerEvict ==
    \E order \in Orders(DOMAIN node_store) :
        LET c == Evict(Replacer, order) IN
        /\ SetReplacer(c.rep)
        /\ UNCHANGED << poolVars, guardVars, ioVars >>

NextReplacer ==
    \/ ReplacerRecordAccess
    \/ ReplacerSetEvictable
    \/ ReplacerRemove
    \/ ReplacerEvict

SpecReplacer == Init /\ [][NextReplacer]_vars

(* ------------------------------------------------------------------ *)
(* The buffer pool's bookkeeping: a client calls NewPage, FetchPage,     *)
(* UnpinPage and DeletePage with any page id. Every order in which      *)
(* Evict may walk node_store_ is tried. No buffer is written, so no     *)
(* write request is ever put; the flush calls and the disk worker are   *)
(* part of the specification with page contents below.                  *)
(* ------------------------------------------------------------------ *)

\* the orders in which a call of the pool may walk node_store_: RequestFrameId
\* calls Evict only when the free list is empty
ScanOrders ==
    IF free_list # << >> THEN { << >> } ELSE Orders(DOMAIN node_store)

\* the orders FetchPage(page_id) may walk node_store_ in: a hit returns before
\* RequestFrameId
FetchOrders(page_id) ==
    IF page_id \in DOMAIN page_table THEN { << >> } ELSE ScanOrders

CallNewPage ==
    /\ current_timestamp < MaxAccesses
    /\ next_page_id < MaxPageId
    /\ \E order \in ScanOrders : \E race \in WriteRaces(Pool, order) :
          LET c == NewPage(Pool, order, race) IN
          /\ SetPool(c.pool)
          /\ UNCHANGED << guardVars, ioVars >>

\* FetchPage with a page id from `ids`
FetchPageFrom(ids) ==
    /\ current_timestamp < MaxAccesses
    /\ \E page_id \in ids :
          /\ page_id \in DOMAIN page_table =>
                 pages[page_table[page_id]].pin_count < MaxPin
          /\ \E order \in FetchOrders(page_id) : \E race \in WriteRaces(Pool, order) :
                LET c == FetchPage(Pool, page_id, order, race) IN
                /\ SetPool(c.pool)
                /\ UNCHANGED << guardVars, ioVars >>

CallFetchPage == FetchPageFrom(PageIds)

CallUnpinPage ==
    \E page_id \in PageIds, is_dirty \in BOOLEAN :
        LET c == UnpinPage(Pool, page_id, is_dirty) IN
        /\ SetPool(c.pool)
        /\ UNCHANGED << guardVars, ioVars >>

\* FlushPage by a client: the call returns once its request is in the queue,
\* with the worker anywhere between not started and done
CallFlushPage ==
    \E page_id \in PageIds :
        \E served \in Progress(Pool, 1) :
            LET c == FlushPage(Pool, page_id, served) IN
            /\ SetPool(c.pool)
            /\ UNCHANGED << guardVars, ioVars >>

\* FlushAllPages by a client
CallFlushAllPages ==
    \E order \in Orders(DOMAIN page_table) :
        \E served \in Progress(Pool, PoolSize) :
            /\ SetPool(FlushAllPages(Pool, order, served))
            /\ UNCHANGED << guardVars, ioVars >>

CallDeletePage ==
    \E page_id \in PageIds :
        LET c == DeletePage(Pool, page_id) IN
        /\ SetPool(c.pool)
        /\ UNCHANGED << guardVars, ioVars >>

\* the holder of a pinned page writes its buffer
WriteData ==
    \E f \in Frames, buf \in Buffers :
        /\ pages[f].pin_count > 0
        /\ pages' = [pages EXCEPT ![f].data = buf]
        /\ UNCHANGED << replacerVars, page_table, free_list, next_page_id, disk,
                        write_queue,
                        guardVars, ioVars >>

Next ==
    \/ CallNewPage
    \/ CallFetchPage
    \/ CallUnpinPage
    \/ CallDeletePage

Spec == Init /\ [][Next]_vars

(* ------------------------------------------------------------------ *)
(* The buffer pool with page contents: a client that fetches only page  *)
(* ids NewPage has handed out, writes the buffers of the pages it holds *)
(* pinned and flushes pages, and the disk worker, which serves the      *)
(* write requests at its own pace.                                      *)
(* ------------------------------------------------------------------ *)

FetchAllocatedPage == FetchPageFrom(0 .. (next_page_id - 1))

\* the disk worker serves the next write request of the pool
WorkerWrite ==
    /\ write_queue # << >>
    /\ LET b == WorkerServe(Pool) IN
       /\ disk' = b.disk
       /\ write_queue' = b.queue
    /\ UNCHANGED << replacerVars, pages, page_table, free_list, next_page_id,
                    guardVars, ioVars >>

NextData ==
    \/ CallNewPage
    \/ FetchAllocatedPage
    \/ CallUnpinPage
    \/ CallFlushPage
    \/ CallFlushAllPages
    \/ CallDeletePage
    \/ WriteData
    \/ WorkerWrite

SpecData == Init /\ [][NextData]_vars

(* ------------------------------------------------------------------ *)
(* The guards: a client obtains pages through guards only, moves the    *)
(* guards around, drops and destroys them, and deletes pages. A guard   *)
(* slot holds one object at a time; pins.own is the frame whose pin the *)
(* object in the slot owns by the rules of move semantics. FetchPageRead *)
(* and FetchPageWrite take two steps, FetchPage under latch_ and the    *)
(* page latch outside it: other threads run in between, and a call that *)
(* waits for the page latch has its pin already.                        *)
(* ------------------------------------------------------------------ *)

AllocatedIds == 0 .. (next_page_id - 1)

\* a FetchPage(page_id) that returns `frame` stays within the bounds of the
\* model; a call that returns nullptr records no access
FetchInBounds(page_id, frame) ==
    /\ frame # INVALID_FRAME_ID => current_timestamp < MaxAccesses
    /\ page_id \in DOMAIN page_table => pages[page_table[page_id]].pin_count < MaxPin

GuardNewPage ==
    \E g \in GuardIds, order \in ScanOrders :
      \E race \in WriteRaces(Pool, order) :
        LET c == NewPageGuarded(World, g, order, race) IN
        /\ Vacant(g)
        /\ current_timestamp < MaxAccesses
        /\ next_page_id < MaxPageId
        /\ SetWorld(c.world, Taken("basic", c.frame), [pins.own EXCEPT ![g] = c.frame])

GuardFetchBasic ==
    \E g \in GuardIds, page_id \in AllocatedIds, order \in ScanOrders :
      \E race \in WriteRaces(Pool, order) :
        LET c == FetchPageBasic(World, g, page_id, order, race) IN
        /\ Vacant(g)
        /\ FetchInBounds(page_id, c.frame)
        /\ SetWorld(c.world, Taken("basic", c.frame), [pins.own EXCEPT ![g] = c.frame])

\* FetchPageRead, first step: FetchPage(page_id) under latch_
GuardFetchRead ==
    \E g \in GuardIds, page_id \in AllocatedIds, order \in ScanOrders :
      \E race \in WriteRaces(Pool, order) :
        LET c == FetchPage(Pool, page_id, order, race) IN
        /\ Vacant(g)
        /\ FetchInBounds(page_id, c.frame)
        /\ SetGuards([World EXCEPT !.pool = c.pool], Taken("read", c.frame), pins.own,
                     [fetching EXCEPT ![g] = [pc |-> "Latch", kind |-> "read",
                                              page_ |-> c.frame]])

\* FetchPageWrite, first step: FetchPage(page_id) under latch_
GuardFetchWrite ==
    \E g \in GuardIds, page_id \in AllocatedIds, order \in ScanOrders :
      \E race \in WriteRaces(Pool, order) :
        LET c == FetchPage(Pool, page_id, order, race) IN
        /\ Vacant(g)
        /\ FetchInBounds(page_id, c.frame)
        /\ SetGuards([World EXCEPT !.pool = c.pool], Taken("write", c.frame), pins.own,
                     [fetching EXCEPT ![g] = [pc |-> "Latch", kind |-> "write",
                                              page_ |-> c.frame]])

\* pins.own and fetching after the call filling slot g ended with outcome c
Returned(g, page, c) ==
    [own   |-> IF c.segv THEN pins.own ELSE [pins.own EXCEPT ![g] = page],
     calls |-> [fetching EXCEPT ![g] = IF c.segv THEN [@ EXCEPT !.pc = "Segv"]
                                       ELSE NoFetch]]

\* FetchPageRead, second step: page->RLatch() outside latch_, which waits while
\* a writer holds the latch, and the return of the guard
GuardReadLatch ==
    \E g \in GuardIds, ub \in NullDeref :
        /\ fetching[g].pc = "Latch" /\ fetching[g].kind = "read"
        /\ LET page == fetching[g].page_
               c    == FetchPageReadLatch(World, g, page, ub)
               r    == Returned(g, page, c)
           IN /\ page # NullPage => CanRLatch(latches, page)
              /\ SetGuards(c.world, pins.taken, r.own, r.calls)

\* FetchPageWrite, second step: page->WLatch() outside latch_, which waits
\* while anyone holds the latch, and the return of the guard
GuardWriteLatch ==
    \E g \in GuardIds, ub \in NullDeref :
        /\ fetching[g].pc = "Latch" /\ fetching[g].kind = "write"
        /\ LET page == fetching[g].page_
               c    == FetchPageWriteLatch(World, g, page, ub)
               r    == Returned(g, page, c)
           IN /\ page # NullPage => CanWLatch(latches, page)
              /\ SetGuards(c.world, pins.taken, r.own, r.calls)

GuardMoveConstruct ==
    \E dst, src \in GuardIds :
        /\ Vacant(dst)
        /\ guards[src].live
        /\ SetWorld(MoveConstruct(World, dst, src), pins.taken,
                    [pins.own EXCEPT ![dst] = pins.own[src], ![src] = NullPage])

GuardMoveAssign ==
    \E dst, src \in GuardIds :
        /\ guards[dst].live
        /\ guards[src].live
        /\ guards[dst].kind = guards[src].kind
        /\ SetWorld(MoveAssign(World, dst, src), pins.taken,
                    IF dst = src THEN pins.own
                    ELSE [pins.own EXCEPT ![dst] = pins.own[src], ![src] = NullPage])

GuardDrop ==
    \E g \in GuardIds :
        /\ guards[g].live
        /\ SetWorld(Drop(World, g), pins.taken, [pins.own EXCEPT ![g] = NullPage])

GuardDestroy ==
    \E g \in GuardIds :
        /\ guards[g].live
        /\ SetWorld(Destroy(World, g), pins.taken, [pins.own EXCEPT ![g] = NullPage])

GuardUpgradeRead ==
    \E g, dst \in GuardIds :
        /\ guards[g].live /\ guards[g].kind = "basic"
        /\ Vacant(dst)
        /\ SetWorld(UpgradeRead(World, g, dst), pins.taken, pins.own)

GuardUpgradeWrite ==
    \E g, dst \in GuardIds :
        /\ guards[g].live /\ guards[g].kind = "basic"
        /\ Vacant(dst)
        /\ SetWorld(UpgradeWrite(World, g, dst), pins.taken, pins.own)

NextGuard ==
    \/ GuardNewPage
    \/ GuardFetchBasic
    \/ GuardFetchRead
    \/ GuardFetchWrite
    \/ GuardReadLatch
    \/ GuardWriteLatch
    \/ GuardMoveConstruct
    \/ GuardMoveAssign
    \/ GuardDrop
    \/ GuardDestroy
    \/ GuardUpgradeRead
    \/ GuardUpgradeWrite
    \/ CallDeletePage

SpecGuard == Init /\ [][NextGuard]_vars

(* ------------------------------------------------------------------ *)
(* The disk scheduler on its own: client threads build requests on      *)
(* buffers of their own and schedule them, the worker serves the queue, *)
(* and the owner destroys the scheduler at any time. A thread that has  *)
(* built its request may still put it while the destructor waits in     *)
(* join. The worker and the return of join are scheduled fairly.        *)
(* ------------------------------------------------------------------ *)

\* what the scheduler leaves alone
NotScheduler == << replacerVars, page_table, free_list, next_page_id, write_queue,
                   guardVars, miss >>

\* a thread calls CreatePromise() and builds its request
ThreadCreateRequest ==
    \E t \in Threads, is_write \in BOOLEAN :
        /\ sched = "Alive"
        /\ ~ HasValue(threads[t])
        /\ next_req < MaxRequests
        /\ next_req' = next_req + 1
        /\ threads' = [threads EXCEPT ![t] = DiskRequest(next_req + 1, is_write, NullPage, 0)]
        /\ UNCHANGED << NotScheduler, pages, disk, request_queue, background_thread,
                        promises, io_log, enq_log, sched >>

\* a thread calls Schedule with the request it built
ThreadSchedule ==
    \E t \in Threads :
        /\ sched # "Joined"
        /\ HasValue(threads[t])
        /\ request_queue' = Schedule(request_queue, threads[t])
        /\ enq_log' = Append(enq_log, threads[t].id)
        /\ threads' = [threads EXCEPT ![t] = NullOpt]
        /\ UNCHANGED << NotScheduler, pages, disk, background_thread, promises, io_log,
                        sched, next_req >>

\* the worker's request_queue_.Get() returns
WorkerGet ==
    /\ background_thread.pc = "Get"
    /\ request_queue # << >>
    /\ LET g == ChannelGet(request_queue) IN
       /\ request_queue' = g.queue
       /\ background_thread' = [pc |-> WorkerAfterGet(g.item), req |-> g.item]
    /\ UNCHANGED << NotScheduler, pages, disk, promises, io_log, enq_log, sched,
                    threads, next_req >>

\* the worker calls the disk manager, which succeeds or fails
WorkerIO ==
    /\ background_thread.pc = "IO"
    /\ \E ok \in BOOLEAN :
          LET io == DiskManagerIO(pages, disk, background_thread.req, ok) IN
          /\ pages' = io.pages
          /\ disk' = io.disk
          /\ io_log' = Append(io_log, [id |-> background_thread.req.id, ok |-> ok])
    /\ background_thread' = [background_thread EXCEPT !.pc = "SetValue"]
    /\ UNCHANGED << NotScheduler, request_queue, promises, enq_log, sched, threads,
                    next_req >>

\* the worker fulfils the promise of its request and goes back to Get
WorkerSetValue ==
    /\ background_thread.pc = "SetValue"
    /\ promises' = SetValue(promises, background_thread.req.id)
    /\ background_thread' = WorkerWaiting
    /\ UNCHANGED << NotScheduler, pages, disk, request_queue, io_log, enq_log, sched,
                    threads, next_req >>

\* the owner destroys the scheduler: the sentinel is put, then join waits
SchedDestroy ==
    /\ sched = "Alive"
    /\ LET d == DestructorPut(request_queue, sched) IN
       /\ request_queue' = d.queue
       /\ sched' = d.life
    /\ enq_log' = Append(enq_log, 0)
    /\ UNCHANGED << NotScheduler, pages, disk, background_thread, promises, io_log,
                    threads, next_req >>

\* background_thread_->join() returns
SchedJoin ==
    /\ sched = "Joining"
    /\ background_thread.pc = "Exited"
    /\ sched' = "Joined"
    /\ UNCHANGED << NotScheduler, pages, disk, request_queue, background_thread,
                    promises, io_log, enq_log, threads, next_req >>

NextSched ==
    \/ ThreadCreateRequest
    \/ ThreadSchedule
    \/ WorkerGet
    \/ WorkerIO
    \/ WorkerSetValue
    \/ SchedDestroy
    \/ SchedJoin

SpecSched ==
    /\ Init
    /\ [][NextSched]_vars
    /\ WF_vars(WorkerGet)
    /\ WF_vars(WorkerIO)
    /\ WF_vars(WorkerSetValue)
    /\ WF_vars(SchedJoin)

(* ------------------------------------------------------------------ *)
(* The miss path of NewPage and FetchPage step by step, with the disk   *)
(* scheduler in between. One thread at a time is inside the pool        *)
(* (latch_); a miss schedules the write-back of a dirty victim and goes  *)
(* on, resets and initialises the frame, and FetchPage then schedules   *)
(* the read and waits for its promise. Between misses the client        *)
(* unpins, deletes and writes pages.                                    *)
(* ------------------------------------------------------------------ *)

\* the requests a miss into frame `frame` for a FetchPage (fetch) or a NewPage
\* will schedule
RequestsNeeded(b, frame, fetch) ==
    (IF NeedsWriteBack(b.pages[frame]) THEN 1 ELSE 0) + (IF fetch THEN 1 ELSE 0)

\* NewPage (page_id = INVALID_PAGE_ID here) or the miss path of
\* FetchPage(page_id) up to the write-back: a frame is requested and, if its
\* page is dirty, the write request is scheduled
MissBegin ==
    \E page_id \in {INVALID_PAGE_ID} \cup (AllocatedIds \ DOMAIN page_table),
       order \in ScanOrders :
        LET q == RequestFrameId(Pool, order)
            fetch == page_id # INVALID_PAGE_ID
            target == IF fetch THEN page_id ELSE next_page_id
        IN
        /\ miss.pc = "Idle"
        /\ current_timestamp < MaxAccesses
        /\ ~ fetch => next_page_id < MaxPageId
        /\ q.frame # INVALID_FRAME_ID
        /\ next_req + RequestsNeeded(Pool, q.frame, fetch) <= MaxRequests
        /\ SetPool(q.pool)
        /\ IF NeedsWriteBack(pages[q.frame])
           THEN /\ request_queue' =
                      DiskSchedule(request_queue,
                                   DiskRequest(next_req + 1, TRUE, q.frame,
                                               pages[q.frame].page_id))
                /\ next_req' = next_req + 1
           ELSE UNCHANGED << request_queue, next_req >>
        /\ miss' = [pc |-> "Reset", frame |-> q.frame, page_id |-> target,
                    fetch |-> fetch, read_req |-> 0]
        /\ UNCHANGED << guardVars, background_thread, promises, io_log, enq_log,
                        sched, threads >>

\* the miss goes on: the old table entry is erased, the buffer reset and the
\* frame initialised; NewPage returns, FetchPage schedules the read
MissReset ==
    LET b1 == ResetFrame(Pool, miss.frame)
        b2 == InitPageOnBufferPool(b1, miss.frame, miss.page_id)
    IN
    /\ miss.pc = "Reset"
    /\ IF miss.fetch
       THEN /\ SetPool(b2)
            /\ request_queue' =
                  DiskSchedule(request_queue,
                               DiskRequest(next_req + 1, FALSE, miss.frame, miss.page_id))
            /\ next_req' = next_req + 1
            /\ miss' = [miss EXCEPT !.pc = "AwaitRead", !.read_req = next_req + 1]
       ELSE /\ SetPool(AllocatePage(b2))
            /\ miss' = NoMiss
            /\ UNCHANGED << request_queue, next_req >>
    /\ UNCHANGED << guardVars, background_thread, promises, io_log, enq_log,
                    sched, threads >>

\* FetchPage returns once the promise of its read request is fulfilled
MissReturn ==
    /\ miss.pc = "AwaitRead"
    /\ promises[miss.read_req] = 1
    /\ miss' = NoMiss
    /\ UNCHANGED << replacerVars, poolVars, guardVars, schedVars >>

\* calls made while no thread is inside a miss
MissUnpin == miss.pc = "Idle" /\ CallUnpinPage

MissDelete == miss.pc = "Idle" /\ CallDeletePage

MissWrite == miss.pc = "Idle" /\ WriteData

NextMiss ==
    \/ MissBegin
    \/ MissReset
    \/ MissReturn
    \/ MissUnpin
    \/ MissDelete
    \/ MissWrite
    \/ WorkerGet
    \/ WorkerIO
    \/ WorkerSetValue

SpecMiss == Init /\ [][NextMiss]_vars

(* ------------------------------------------------------------------ *)
(* Properties of the buffer pool. A property of what a call returns is  *)
(* stated of the call made in each reachable state, with every argument *)
(* and every scan order of Evict.                                       *)
(* ------------------------------------------------------------------ *)

Range(seq) == { seq[i] : i \in 1 .. Len(seq) }

\* the frames the page table maps some page id to
TableImage == { page_table[p] : p \in DOMAIN page_table }

\* the frame holds a page: it is not on the free list
InUse(f) == f \notin Range(free_list)

\* the frame is in the replacer's evictable set
IsEvictable(f) == f \in DOMAIN node_store /\ node_store[f].is_evictable_

\* the page ids FetchPage misses on
NonResident == PageIds \ DOMAIN page_table

\* C1: a frame with pin_count > 0 is never in the replacer's evictable set, a
\* resident frame with pin_count = 0 is evictable, and the frame a NewPage or a
\* FetchPage miss reuses has pin_count = 0 when it is taken
C1_PinnedNotEvictable ==
    /\ \A f \in Frames : pages[f].pin_count > 0 => ~ IsEvictable(f)
    /\ \A f \in TableImage : pages[f].pin_count = 0 => IsEvictable(f)
    /\ \A order \in ScanOrders : \A race \in WriteRaces(Pool, order) :
          /\ LET c == NewPage(Pool, order, race) IN
             c.frame # INVALID_FRAME_ID =>
                c.reused_pin = 0 /\ pages[c.frame].pin_count = 0
          /\ \A p \in NonResident :
                LET c == FetchPage(Pool, p, order, race) IN
                c.frame # INVALID_FRAME_ID =>
                   c.reused_pin = 0 /\ pages[c.frame].pin_count = 0

\* the free list is empty, one frame is pinned, another is unpinned and
\* evictable, and NewPage reuses the unpinned one
C1_Witness ==
    /\ free_list = << >>
    /\ \E f, g \in TableImage :
          /\ pages[f].pin_count > 0 /\ ~ IsEvictable(f)
          /\ pages[g].pin_count = 0 /\ IsEvictable(g)
          /\ \A order \in ScanOrders : \A race \in WriteRaces(Pool, order) :
                NewPage(Pool, order, race).frame = g

\* C2: every page-table entry p -> f has pages[f].page_id = p, and no page id
\* is held by two in-use frames at the same time
C2_OneFramePerPage ==
    /\ \A p \in DOMAIN page_table : pages[page_table[p]].page_id = p
    /\ \A f, g \in Frames :
          (InUse(f) /\ InUse(g) /\ f # g) => pages[f].page_id # pages[g].page_id

\* C3: every frame is in exactly one of the free list and the image of the
\* page table, and appears there once
C3_FramePartition ==
    \A f \in Frames :
        Cardinality({ i \in 1 .. Len(free_list) : free_list[i] = f })
          + Cardinality({ p \in DOMAIN page_table : page_table[p] = f }) = 1

\* C4: the dirty bit of a resident page, once set, stays set across
\* UnpinPage(p, true), UnpinPage(p, false) and FetchPage(p)
C4_DirtyMonotone ==
    \A p \in DOMAIN page_table :
        LET f == page_table[p] IN
        pages[f].is_dirty =>
            /\ \A is_dirty \in BOOLEAN :
                  UnpinPage(Pool, p, is_dirty).pool.pages[f].is_dirty
            /\ \A order \in ScanOrders : \A race \in WriteRaces(Pool, order) :
                  FetchPage(Pool, p, order, race).pool.pages[f].is_dirty

\* C5: when a NewPage or a FetchPage miss reuses a frame whose page is marked
\* dirty, the frame's content is on disk under that page's id when the call
\* returns
C5_WriteBackBeforeReuse ==
    \A order \in ScanOrders : \A race \in WriteRaces(Pool, order) :
        /\ LET c == NewPage(Pool, order, race) IN
           (c.frame # INVALID_FRAME_ID /\ pages[c.frame].is_dirty) =>
               c.pool.disk[pages[c.frame].page_id] = pages[c.frame].data
        /\ \A p \in NonResident :
              LET c == FetchPage(Pool, p, order, race) IN
              (c.frame # INVALID_FRAME_ID /\ pages[c.frame].is_dirty) =>
                  c.pool.disk[pages[c.frame].page_id] = pages[c.frame].data

\* every frame is pinned
AllPinned == \A f \in Frames : pages[f].pin_count > 0

\* the free list is empty and no frame that holds a page has pin_count 0
NoFrameAvailable ==
    free_list = << >> /\ \A f \in Frames : InUse(f) => pages[f].pin_count > 0

\* C6: NewPage and a FetchPage miss return null exactly when the free list is
\* empty and no frame holding a page is unpinned, and a call that returns null
\* changes neither the pool nor the replacer
C6_NullIffNoFrame ==
    \A order \in ScanOrders : \A race \in WriteRaces(Pool, order) :
        /\ LET c == NewPage(Pool, order, race) IN
           /\ c.frame = INVALID_FRAME_ID <=> NoFrameAvailable
           /\ c.frame = INVALID_FRAME_ID => c.pool = Pool
        /\ \A p \in NonResident :
              LET c == FetchPage(Pool, p, order, race) IN
              /\ c.frame = INVALID_FRAME_ID <=> NoFrameAvailable
              /\ c.frame = INVALID_FRAME_ID => c.pool = Pool

\* every frame holds a pinned page, and NewPage and FetchPage of a page that is
\* not resident return null
C6_Witness ==
    /\ AllPinned /\ free_list = << >>
    /\ NonResident # {}
    /\ \A order \in ScanOrders : \A race \in WriteRaces(Pool, order) :
          /\ NewPage(Pool, order, race).frame = INVALID_FRAME_ID
          /\ \A p \in NonResident : FetchPage(Pool, p, order, race).frame = INVALID_FRAME_ID

(* ------------------------------------------------------------------ *)
(* Properties of the replacer                                           *)
(* ------------------------------------------------------------------ *)

\* the frames of the evictable nodes
Evictable == { f \in DOMAIN node_store : node_store[f].is_evictable_ }

\* the node has fewer than K recorded accesses: its backward K-distance is +infinity
InfiniteDistance(f) == Len(node_store[f].history_) < K

\* the timestamp of the K-th most recent access of a node with K accesses
KthRecent(f) ==
    node_store[f].history_[Len(node_store[f].history_) - K + 1]

\* the timestamp of the first recorded access
FirstAccess(f) == node_store[f].history_[1]

\* f goes before g under LRU-K: a greater backward K-distance, and among
\* +infinity frames the earlier first access
GoesBefore(f, g) ==
    \/ InfiniteDistance(f) /\ ~ InfiniteDistance(g)
    \/ InfiniteDistance(f) /\ InfiniteDistance(g) /\ FirstAccess(f) < FirstAccess(g)
    \/ ~ InfiniteDistance(f) /\ ~ InfiniteDistance(g) /\ KthRecent(f) < KthRecent(g)

\* the victim LRU-K prescribes
LRUKVictim ==
    IF Evictable = {} THEN INVALID_FRAME_ID
    ELSE CHOOSE f \in Evictable : \A g \in Evictable \ {f} : GoesBefore(f, g)

\* C7: whatever the iteration order of the node store, Evict returns the
\* evictable frame LRU-K prescribes and erases its node, and it reports no
\* victim only when no node is evictable
C7_EvictIsLRUK ==
    \A order \in Orders(DOMAIN node_store) :
        LET e == Evict(Replacer, order) IN
        /\ e.frame = LRUKVictim
        /\ e.ok <=> Evictable # {}
        /\ e.ok => DOMAIN e.rep.ns = DOMAIN node_store \ {LRUKVictim}

\* Evict has to choose among two evictable +infinity frames and an evictable
\* frame with K accesses, and the frame with the smallest id is not the victim
C7_Witness ==
    /\ \E f, g, h \in Evictable :
          /\ f # g
          /\ InfiniteDistance(f) /\ InfiniteDistance(g) /\ ~ InfiniteDistance(h)
    /\ \A order \in Orders(DOMAIN node_store) :
          /\ Evict(Replacer, order).ok
          /\ \E f \in Evictable : f < Evict(Replacer, order).frame

\* C8: Size() is the number of nodes whose is_evictable flag is true
C8_SizeCountsEvictable == Size(Replacer) = Cardinality(Evictable)

\* an evictable node and a non-evictable node are held, so that Size() counts
\* a part of the nodes; Remove of the non-evictable node and a call with an
\* out-of-range frame id are rejected here
C8_Witness ==
    /\ Evictable # {}
    /\ \E f \in DOMAIN node_store : Remove(Replacer, f).thrown
    /\ \E f \in FrameArgs : SetEvictable(Replacer, f, TRUE).thrown
    /\ Size(Replacer) >= 1

(* ------------------------------------------------------------------ *)
(* Properties of the guards                                             *)
(* ------------------------------------------------------------------ *)

\* the guard objects of the given classes that own a pin on frame f
Owners(f, kinds) ==
    { g \in GuardIds : guards[g].live /\ guards[g].kind \in kinds /\ pins.own[g] = f }

\* no guard object owns a pin
NoOwners == \A g \in GuardIds : pins.own[g] = NullPage

\* the FetchPageRead / FetchPageWrite calls that hold a pin on frame f and have
\* not returned their guard yet
Fetchers(f) ==
    { g \in GuardIds : fetching[g].pc = "Latch" /\ fetching[g].page_ = f }

\* C9: the pin taken by FetchPageRead or FetchPageWrite is released exactly
\* once when the guard is dropped or destroyed (every pin taken is one that was
\* released, one a guard owns, or one of a call still in progress), so that
\* with no guard left and no call in progress DeletePage of a resident page
\* returns true
C9_LatchedGuardReleasesPin ==
    /\ \A f \in Frames :
          pins.taken["latched"][f] =
              pins.calls["latched"][f] + Cardinality(Owners(f, {"read", "write"}))
                  + Cardinality(Fetchers(f))
    /\ (NoOwners /\ \A f \in Frames : Fetchers(f) = {}) =>
           \A p \in DOMAIN page_table : DeletePage(Pool, p).ok

\* C10: every pin a BasicPageGuard took has had UnpinPage called once for it,
\* unless a guard still owns it; a basic guard points to a page exactly when
\* it owns that page's pin (moved-from and dropped guards are inert); and a
\* frame pinned through basic guards only has one pin per owner
C10_BasicGuardUnpinsOnce ==
    /\ \A f \in Frames :
          pins.taken["basic"][f] =
              pins.calls["basic"][f] + Cardinality(Owners(f, {"basic"}))
    /\ \A g \in GuardIds :
          (guards[g].live /\ guards[g].kind = "basic") => guards[g].page_ = pins.own[g]
    /\ \A f \in Frames :
          pins.taken["latched"][f] = 0 =>
              pages[f].pin_count = Cardinality(Owners(f, {"basic"}))

\* two pins were taken through basic guards, UnpinPage has been called once for
\* one of them, the other is still owned, and a guard that gave its page away
\* is still alive
C10_Witness ==
    /\ \E f, h \in Frames :
          /\ f # h
          /\ pins.taken["basic"][f] = 1 /\ pins.calls["basic"][f] = 1
          /\ pins.taken["basic"][h] = 1 /\ pins.calls["basic"][h] = 0
    /\ \E g, h \in GuardIds :
          /\ guards[g].live /\ guards[g].kind = "basic" /\ guards[g].page_ # NullPage
          /\ guards[h].live /\ guards[h].kind = "basic" /\ guards[h].page_ = NullPage

\* the live guards of class `kind` that own a pin on frame f
LatchOwners(f, kind) == Owners(f, {kind})

\* C11: a frame's write latch is held only while a write guard owns the pin on
\* it, and its read latch is held once per read guard that owns a pin on it: a
\* guard that was dropped or destroyed has released its latch, so that a thread
\* waiting for the latch can take it
C11_LatchReleasedOnDrop ==
    \A f \in Frames :
        /\ latches[f].writer <=> LatchOwners(f, "write") # {}
        /\ latches[f].readers = Cardinality(LatchOwners(f, "read"))

\* the total of UnpinPage calls guards have made for frame f in world w
UnpinCalls(w, f) == w.calls["basic"][f] + w.calls["latched"][f]

\* C12: UpgradeRead and UpgradeWrite of a basic guard g that holds frame f
\* return a guard that points to f and holds its latch, leave g without a page,
\* and destroying both guards afterwards calls UnpinPage for f exactly once
C12_UpgradeTransfersPin ==
    \A g, dst \in GuardIds :
        (/\ guards[g].live /\ guards[g].kind = "basic"
         /\ guards[g].page_ # NullPage
         /\ ~ guards[dst].live) =>
            LET f  == guards[g].page_
                rd == UpgradeRead(World, g, dst)
                wr == UpgradeWrite(World, g, dst)
            IN /\ rd.guards[dst].page_ = f
               /\ rd.guards[g].page_ = NullPage
               /\ ~ latches[f].writer => rd.latches[f].readers = latches[f].readers + 1
               /\ wr.guards[dst].page_ = f
               /\ wr.guards[g].page_ = NullPage
               /\ (~ latches[f].writer /\ latches[f].readers = 0) => wr.latches[f].writer
               /\ UnpinCalls(Destroy(Destroy(rd, g), dst), f) = UnpinCalls(World, f) + 1
               /\ UnpinCalls(Destroy(Destroy(wr, g), dst), f) = UnpinCalls(World, f) + 1

(* ------------------------------------------------------------------ *)
(* Properties of the disk scheduler                                     *)
(* ------------------------------------------------------------------ *)

\* the request ids of the disk manager calls made so far, in order
Executed == [i \in 1 .. Len(io_log) |-> io_log[i].id]

\* the position of the sentinel in the order of entry (past the end if none)
SentinelAt ==
    IF \E i \in 1 .. Len(enq_log) : enq_log[i] = 0
    THEN CHOOSE i \in 1 .. Len(enq_log) : enq_log[i] = 0
    ELSE Len(enq_log) + 1

\* the requests that entered the queue before the sentinel, in order of entry
BeforeSentinel == SubSeq(enq_log, 1, SentinelAt - 1)

IsPrefix(a, b) == Len(a) <= Len(b) /\ SubSeq(b, 1, Len(a)) = a

\* the worker holds a request whose promise it has not fulfilled yet
WorkerBusy == background_thread.pc \in {"IO", "SetValue"}

\* C13: the disk manager is called for the requests in the order they entered
\* the queue, one request at a time and each request once; a promise is
\* fulfilled at most once and only after the disk call of its request has
\* returned; and when the worker has exited, every request that entered the
\* queue before the sentinel has been executed and its promise fulfilled
C13_WorkerServesInOrder ==
    /\ IsPrefix(Executed, BeforeSentinel)
    /\ \A i, j \in 1 .. Len(io_log) : i # j => io_log[i].id # io_log[j].id
    /\ background_thread.pc = "IO" =>
          /\ Len(Executed) < Len(BeforeSentinel)
          /\ background_thread.req.id = BeforeSentinel[Len(Executed) + 1]
    /\ background_thread.pc = "SetValue" =>
          /\ io_log # << >>
          /\ background_thread.req.id = io_log[Len(io_log)].id
    /\ \A id \in RequestIds :
          /\ promises[id] <= 1
          /\ promises[id] = 1 =>
                /\ \E i \in 1 .. Len(io_log) : io_log[i].id = id
                /\ ~ (background_thread.pc = "SetValue" /\ background_thread.req.id = id)
    /\ background_thread.pc = "Exited" =>
          /\ Executed = BeforeSentinel
          /\ \A i \in 1 .. Len(BeforeSentinel) : promises[BeforeSentinel[i]] = 1

\* the worker has exited after serving two requests that entered the queue in
\* the reverse of the order in which their promises were created
C13_Witness ==
    /\ background_thread.pc = "Exited"
    /\ Len(io_log) >= 2
    /\ io_log[1].id > io_log[2].id
    /\ promises[io_log[1].id] = 1 /\ promises[io_log[2].id] = 1

\* C14: once the destructor has put the sentinel its join returns; by then the
\* worker has exited and every request that entered the queue before the
\* sentinel has been executed and its promise fulfilled; and the worker exits
\* only in the step in which it takes the sentinel from the queue
C14_ShutdownDrains ==
    /\ (sched = "Joining") ~> (sched = "Joined")
    /\ [](sched = "Joined" =>
            /\ background_thread.pc = "Exited"
            /\ Executed = BeforeSentinel
            /\ \A i \in 1 .. Len(BeforeSentinel) : promises[BeforeSentinel[i]] = 1)
    /\ [][(background_thread.pc # "Exited" /\ background_thread'.pc = "Exited") =>
            (/\ background_thread.pc = "Get"
             /\ request_queue # << >>
             /\ ~ HasValue(Head(request_queue)))]_vars

\* the destructor has returned after the worker drained two requests
C14_Witness ==
    /\ sched = "Joined"
    /\ Len(io_log) >= 2
    /\ Len(BeforeSentinel) >= 2

\* C15: a promise is fulfilled with success only if the disk manager call of
\* its request succeeded (set_value is only ever called with true), the worker
\* goes on to the next request after a failed call, and it stops only on the
\* sentinel
C15_FailureCarried ==
    /\ \A i \in 1 .. Len(io_log) : promises[io_log[i].id] = 1 => io_log[i].ok
    /\ background_thread.pc = "Exited" => Executed = BeforeSentinel

(* ------------------------------------------------------------------ *)
(* Properties of single calls of the buffer pool                        *)
(* ------------------------------------------------------------------ *)

\* C16: DeletePage(p) returns true and changes nothing when p is not resident,
\* returns false and changes nothing when p is resident and pinned, and
\* otherwise returns true with p gone from the page table, its frame at the
\* back of the free list with page_id INVALID, pin_count 0 and not dirty, and
\* the frame's node gone from the replacer, whose Size() is one less
C16_DeletePageContract ==
    \A p \in PageIds :
        LET c == DeletePage(Pool, p) IN
        IF p \notin DOMAIN page_table
        THEN c.ok /\ c.pool = Pool
        ELSE LET f == page_table[p] IN
             IF pages[f].pin_count > 0
             THEN ~ c.ok /\ c.pool = Pool
             ELSE /\ c.ok /\ ~ c.thrown
                  /\ p \notin DOMAIN c.pool.page_table
                  /\ c.pool.free_list = Append(free_list, f)
                  /\ c.pool.pages[f].page_id = INVALID_PAGE_ID
                  /\ c.pool.pages[f].pin_count = 0
                  /\ ~ c.pool.pages[f].is_dirty
                  /\ f \in DOMAIN node_store
                  /\ f \notin DOMAIN c.pool.rep.ns
                  /\ Size(c.pool.rep) = Size(Replacer) - 1

\* a resident page is unpinned and dirty while the free list holds a frame, so
\* DeletePage of it succeeds; a page that is not resident can be named too
C16_Witness ==
    /\ free_list # << >>
    /\ NonResident # {}
    /\ \E p \in DOMAIN page_table :
          /\ pages[page_table[p]].pin_count = 0
          /\ pages[page_table[p]].is_dirty
          /\ DeletePage(Pool, p).ok

\* the pool after n times the pair FetchPage(p); UnpinPage(p, false)
RECURSIVE FetchUnpinTimes(_, _, _)
FetchUnpinTimes(b, p, n) ==
    IF n = 0 THEN b
    ELSE FetchUnpinTimes(UnpinPage(FetchPage(b, p, << >>, Late).pool, p, FALSE).pool, p, n - 1)

\* C17: for a resident page p with pin_count 0, n pairs FetchPage(p);
\* UnpinPage(p, false) leave the page table as it was, pin_count(p) = 0 and p's
\* frame evictable; a successful UnpinPage lowers pin_count by one, pin_count
\* is never below 0, and UnpinPage of a page that is not resident or has
\* pin_count 0 returns false and changes nothing
C17_FetchUnpinPairs ==
    /\ \A f \in Frames : pages[f].pin_count >= 0
    /\ \A p \in DOMAIN page_table, n \in 1 .. MaxPairs :
          LET f == page_table[p]
              b == FetchUnpinTimes(Pool, p, n)
          IN pages[f].pin_count = 0 =>
                /\ b.page_table = page_table
                /\ b.pages[f].pin_count = 0
                /\ f \in DOMAIN b.rep.ns /\ b.rep.ns[f].is_evictable_
                /\ FetchPage(Pool, p, << >>, Late).pool.pages[f].pin_count = 1
    /\ \A p \in PageIds, is_dirty \in BOOLEAN :
          LET c == UnpinPage(Pool, p, is_dirty) IN
          IF p \notin DOMAIN page_table \/ pages[page_table[p]].pin_count = 0
          THEN ~ c.ok /\ c.pool = Pool
          ELSE /\ c.ok
               /\ c.pool.pages[page_table[p]].pin_count =
                      pages[page_table[p]].pin_count - 1

\* one resident page has pin_count 0, another is pinned twice, and some page
\* is not resident
C17_Witness ==
    /\ NonResident # {}
    /\ \E p, q \in DOMAIN page_table :
          /\ pages[page_table[p]].pin_count = 0
          /\ pages[page_table[q]].pin_count = 2
          /\ UnpinPage(Pool, q, FALSE).ok
          /\ ~ UnpinPage(Pool, p, FALSE).ok

\* C18: a NewPage that returns a page returns the id next_page_id_ and moves
\* the counter one up, so ids are consecutive and each is greater than every id
\* handed out before; the page is resident in the returned frame with
\* pin_count 1 and not dirty; a NewPage that returns null leaves the counter
\* alone, and so does every other call, DeletePage too
C18_NewPageIds ==
    /\ next_page_id >= 0
    /\ \A order \in ScanOrders : \A race \in WriteRaces(Pool, order) :
          LET c == NewPage(Pool, order, race) IN
          IF c.frame = INVALID_FRAME_ID
          THEN c.pool.next_page_id = next_page_id
          ELSE /\ c.page_id = next_page_id
               /\ c.pool.next_page_id = next_page_id + 1
               /\ c.page_id \in DOMAIN c.pool.page_table
               /\ c.pool.page_table[c.page_id] = c.frame
               /\ c.pool.pages[c.frame].page_id = c.page_id
               /\ c.pool.pages[c.frame].pin_count = 1
               /\ ~ c.pool.pages[c.frame].is_dirty
    /\ \A p \in PageIds :
          /\ \A order \in FetchOrders(p) : \A race \in WriteRaces(Pool, order) :
                FetchPage(Pool, p, order, race).pool.next_page_id = next_page_id
          /\ \A is_dirty \in BOOLEAN :
                UnpinPage(Pool, p, is_dirty).pool.next_page_id = next_page_id
          /\ \A served \in Progress(Pool, 1) :
                FlushPage(Pool, p, served).pool.next_page_id = next_page_id
          /\ DeletePage(Pool, p).pool.next_page_id = next_page_id
    /\ \A order \in Orders(DOMAIN page_table), served \in Progress(Pool, PoolSize) :
          FlushAllPages(Pool, order, served).next_page_id = next_page_id

\* ids have been handed out, the page with id 0 is gone again, and the next
\* NewPage takes a frame from the free list for an id that is not 0
C18_Witness ==
    /\ next_page_id >= 1
    /\ 0 \notin DOMAIN page_table
    /\ \A f \in Frames : pages[f].page_id # 0
    /\ free_list # << >>
    /\ \A order \in ScanOrders : \A race \in WriteRaces(Pool, order) :
          /\ NewPage(Pool, order, race).frame # INVALID_FRAME_ID
          /\ NewPage(Pool, order, race).page_id = next_page_id

(* ------------------------------------------------------------------ *)
(* Properties of the miss path and of the replacer's range check        *)
(* ------------------------------------------------------------------ *)

\* the requests on frame buffers that were scheduled and whose disk call has
\* not returned yet
Outstanding ==
    { request_queue[i] : i \in 1 .. Len(request_queue) }
       \cup (IF background_thread.pc = "IO" THEN {background_thread.req} ELSE {})

\* C19: while a write request on a frame's buffer is outstanding the miss that
\* scheduled it has not gone on to reset the buffer, and while the read request
\* of a FetchPage is outstanding or its promise unfulfilled the FetchPage has
\* not returned
C19_NoReuseWhileOutstanding ==
    /\ \A r \in Outstanding :
          r.is_write_ => (miss.pc = "Reset" /\ miss.frame = r.data_)
    /\ \A r \in Outstanding \cup
                (IF background_thread.pc = "SetValue" THEN {background_thread.req} ELSE {}) :
          ~ r.is_write_ => (miss.pc = "AwaitRead" /\ miss.read_req = r.id)

\* C20: RecordAccess, SetEvictable and Remove throw for every frame id outside
\* 0 .. num_frames - 1 and then leave the replacer as it is, so the replacer
\* never holds more than num_frames nodes, and no history is longer than K
C20_RangeCheck ==
    /\ \A fid \in FrameArgs \ Frames :
          /\ RecordAccess(Replacer, fid).thrown
          /\ RecordAccess(Replacer, fid).rep = Replacer
          /\ \A flag \in BOOLEAN :
                /\ SetEvictable(Replacer, fid, flag).thrown
                /\ SetEvictable(Replacer, fid, flag).rep = Replacer
          /\ Remove(Replacer, fid).thrown
          /\ Remove(Replacer, fid).rep = Replacer
    /\ Cardinality(DOMAIN node_store) <= PoolSize
    /\ \A f \in DOMAIN node_store : Len(node_store[f].history_) <= K

====
